---- MODULE Spec2Model ----
(***************************************************************************)
(* Model of cutover_mcp/clients/api.py: the APIClient handle (lazy         *)
(* httpx.AsyncClient, aclose, request with bounded retry) and the          *)
(* APIClientManager pool (get_client, close_all), run by cooperatively     *)
(* scheduled asyncio tasks.  One action is one run of a coroutine from one *)
(* suspension point (await of network I/O or sleep) to the next.  Above    *)
(* the client layer: the lifespan hook of cutover_mcp/app.py and the tools *)
(* of cutover_mcp/tools and cutover_mcp/server.py that call into it.       *)
(***************************************************************************)
EXTENDS Integers, Sequences, FiniteSets, TLC

VARIABLES
    env,        \* os.environ: CUTOVER_BASE_URL, CUTOVER_API_TOKEN, CUTOVER_CORE_URL
    handles,    \* every APIClient instance ever constructed, by instance id
    ctxs,       \* every httpx.AsyncClient ever constructed, by instance id
    pool,       \* APIClientManager._clients: insertion-ordered dict key -> handle
    tasks,      \* per asyncio task: position and locals of the coroutine it runs
    closer,     \* the coroutine running APIClientManager.close_all
    lookups,    \* history: (credential set, handle) of every successful get_client
                \* since the last step of a close_all
    life,       \* app_lifespan: its position and the APIClientManager it constructs
    toolcall    \* the tool coroutine task t1 runs: its position, arguments, calls made

vars == <<env, handles, ctxs, pool, tasks, closer, lookups, life, toolcall>>

\* The variables of the application layer, which the client layer never
\* touches, and those of the client layer.
appvars == <<life, toolcall>>
clientvars == <<env, handles, ctxs, pool, tasks, closer, lookups>>

----------------------------------------------------------------------------
(* Bounds of the model *)

MaxHandles == 2     \* APIClient instances constructed in one behaviour
MaxCtx == 2         \* httpx.AsyncClient instances constructed in one behaviour
MaxCloseAll == 1    \* close_all calls in one behaviour
MaxTeardown == 2    \* close_all calls in a row where teardown is under study

Tasks == {"t1", "t2"}

----------------------------------------------------------------------------
(* Strings are sequences of characters; an optional string (str | None) is *)
(* a record that says whether it is set.                                   *)

None == [set |-> FALSE, val |-> <<>>]
Some(s) == [set |-> TRUE, val |-> s]

\* Mutant: only None is falsy.
TruthyIfSet(o) == o.set

\* Python truthiness of a str | None: None and "" are falsy.
Truthy(o) == o.set /\ o.val # <<>>

\* str(x) as an f-string formats it: None becomes the text "None".
Format(o) == IF o.set THEN o.val ELSE <<"N", "o", "n", "e">>

RECURSIVE RStripSlash(_)
RStripSlash(s) ==
    IF s # <<>> /\ s[Len(s)] = "/" THEN RStripSlash(SubSeq(s, 1, Len(s) - 1)) ELSE s

RECURSIVE LStripSlash(_)
LStripSlash(s) ==
    IF s # <<>> /\ s[1] = "/" THEN LStripSlash(Tail(s)) ELSE s

\* url = f"{self.base_url}/{endpoint.lstrip('/')}", base being a handle's
\* base_url.  A path is a sequence of pieces, each "/" a piece of its own.
Url(base, endpoint) == base \o <<"/">> \o LStripSlash(endpoint)

\* The environment states the model draws from: valid ones that differ in one
\* component, ones whose texts meet the separator or the text of None, and
\* ones with a required value unset or empty.
MkEnv(b, a, c) == [base_url |-> b, api_key |-> a, core_url |-> c]

EnvStates ==
    { MkEnv(Some(<<"u">>), Some(<<"k">>), None),
      MkEnv(Some(<<"u">>), Some(<<"k">>), Some(<<"N", "o", "n", "e">>)),
      MkEnv(Some(<<"u">>), Some(<<"k">>), Some(<<>>)),
      MkEnv(Some(<<"u", "/">>), Some(<<"k">>), None),
      MkEnv(Some(<<"u">>), Some(<<"j">>), None),
      MkEnv(None, Some(<<"k">>), None),
      MkEnv(Some(<<"u">>), Some(<<>>), None) }

\* The environment states drawn where the pool is under study.
PoolEnvStates ==
    { MkEnv(Some(<<"u">>), Some(<<"k">>), None),
      MkEnv(Some(<<"u">>), Some(<<"k">>), Some(<<"N", "o", "n", "e">>)),
      MkEnv(Some(<<"u">>), Some(<<"k">>), Some(<<>>)),
      MkEnv(None, Some(<<"k">>), None) }

Valid(e) == Truthy(e.base_url) /\ Truthy(e.api_key)

----------------------------------------------------------------------------
(* APIClientManager.get_client: the key and the dict *)

PoolKey(e) ==
    Format(e.base_url) \o <<"|">> \o Format(e.api_key) \o <<"|">> \o Format(e.core_url)

\* Mutant: the membership test of the dict never finds the key.
DictHasNever(d, k) == FALSE

\* Mutant: the dict holds the entry stored last and no other.
DictSetEvicts(d, k, v) == <<[key |-> k, h |-> v]>>

\* key in d, d[key], d[key] = v on the insertion-ordered dict d
DictHas(d, k) == \E i \in 1..Len(d) : d[i].key = k
DictGet(d, k) == (CHOOSE i \in 1..Len(d) : d[i].key = k)
DictValue(d, k) == d[DictGet(d, k)].h
DictSet(d, k, v) ==
    IF DictHas(d, k)
    THEN [d EXCEPT ![DictGet(d, k)] = [key |-> k, h |-> v]]
    ELSE Append(d, [key |-> k, h |-> v])

\* APIClient.__init__
NewHandle(b, a, c) ==
    [base_url |-> RStripSlash(b), api_key |-> a, core_url |-> c, client |-> 0]

----------------------------------------------------------------------------
(* Errors, responses and attempt outcomes *)

NoError == [kind |-> "none", status |-> 0]
Err(k, s) == [kind |-> k, status |-> s]

\* What the awaited httpx request of one attempt ends with: a transport
\* failure (httpx.RequestError) or a response with a status and a body text.
NetErr == [kind |-> "neterr", status |-> 0, body |-> ""]
Resp(s, b) == [kind |-> "response", status |-> s, body |-> b]
\* httpx refuses to send on a closed client (RuntimeError) before any I/O.
ClosedErr == [kind |-> "closed", status |-> 0, body |-> ""]

Outcomes ==
    { NetErr,
      Resp(200, "{\"id\":\"1\"}"),
      Resp(201, "<html>"),
      Resp(204, ""),
      Resp(301, ""),
      Resp(404, "{}"),
      Resp(503, "") }

\* The outcomes drawn where concurrent calls are under study: one that
\* returns, one that raises at once and one that sends the call to sleep.
ConcOutcomes == { Resp(200, "{\"id\":\"1\"}"), Resp(404, "{}"), Resp(503, "") }

\* Body texts of a JSON:API single-resource document and of a list document;
\* in the parsed object the text of a member's value stands for the value.
SingleBody == "{\"data\":{resource}}"
ListBody == "{\"data\":[resources],\"meta\":{page},\"links\":{links}}"

\* The outcomes drawn where the tools are under study: the documents the
\* response models accept or reject, the status errors the tools' tests
\* raise, and a network error.
ToolOutcomes ==
    { NetErr, Resp(200, "{\"id\":\"1\"}"), Resp(200, SingleBody), Resp(200, ListBody),
      Resp(401, ""), Resp(403, ""), Resp(404, "{}"), Resp(500, "") }

\* The outcomes drawn where the pool, not the retry policy, is under study.
PoolOutcomes == { Resp(200, "{\"id\":\"1\"}"), Resp(404, "{}") }

\* A JSON object is the set of its <<name, value>> members.
EmptyObject == {}

\* response.json() on the body texts above; ok is FALSE where json.loads raises.
JsonLoads(b) ==
    CASE b = "{\"id\":\"1\"}" -> [ok |-> TRUE, value |-> {<<"id", "1">>}]
      [] b = "{}" -> [ok |-> TRUE, value |-> EmptyObject]
      [] b = SingleBody -> [ok |-> TRUE, value |-> {<<"data", "{resource}">>}]
      [] b = ListBody ->
             [ok |-> TRUE, value |-> {<<"data", "[resources]">>, <<"meta", "{page}">>,
                                      <<"links", "{links}">>}]
      [] OTHER -> [ok |-> FALSE, value |-> EmptyObject]

\* httpx.Response.is_success, on which raise_for_status decides.
IsSuccess(s) == 200 <= s /\ s < 300

\* Mutants of the backoff delay: linear in the attempt; constant.
Pow2Linear(n) == 2 * n
Pow2Const(n) == 1

\* delay = 2**attempt
RECURSIVE Pow2(_)
Pow2(n) == IF n = 0 THEN 1 ELSE 2 * Pow2(n - 1)

RangeStop == 3      \* range(3): attempt runs over 0, 1, 2
LastAttempt == 2    \* attempt == 2: the error of this attempt is raised

----------------------------------------------------------------------------
(* State *)

IdleTask == [pc |-> "idle", h |-> 0, client |-> 0, attempt |-> 0,
             outcomes |-> <<>>, sleeps |-> <<>>, result |-> EmptyObject,
             error |-> NoError]

IdleCloser == [pc |-> "idle", pos |-> 0, used |-> 0, h |-> 0, calls |-> 0,
               error |-> NoError]

\* app_lifespan before the server enters it: no manager constructed yet.
IdleLife == [pc |-> "init", clients |-> <<>>, closes |-> 0]

\* No tool coroutine running.
IdleTool == [pc |-> "idle", tool |-> "none", args |-> <<>>, gets |-> 0,
             opts |-> <<>>, reqs |-> <<>>, result |-> EmptyObject,
             error |-> NoError, msg |-> <<>>]

Init ==
    /\ env \in EnvStates
    /\ handles = <<>>
    /\ ctxs = <<>>
    /\ pool = <<>>
    /\ tasks = [t \in Tasks |-> IdleTask]
    /\ closer = IdleCloser
    /\ lookups = {}
    /\ life = IdleLife
    /\ toolcall = IdleTool

\* The environment is changed from outside the client layer.
SetEnv(e) ==
    /\ env' = e
    /\ UNCHANGED <<handles, ctxs, pool, tasks, closer, lookups>>

\* A task between calls: it runs no coroutine of the client layer.
AtRest(t) == tasks[t].pc \in {"idle", "done", "failed"}

\* A task at rest keeps the handle it holds; the record of its last call goes.
Rested(t) == [IdleTask EXCEPT !.h = tasks[t].h]

----------------------------------------------------------------------------
(* APIClientManager.get_client *)

\* Mutant: the task is suspended between the membership test and the insert.
GetClientSplit(t) ==
    /\ \/ /\ AtRest(t)
          /\ IF ~Truthy(env.base_url) \/ ~Truthy(env.api_key)
             THEN /\ tasks' = [tasks EXCEPT ![t] =
                                  [Rested(t) EXCEPT !.pc = "failed",
                                                    !.error = Err("ValueError", 0)]]
                  /\ UNCHANGED <<handles, pool, lookups>>
             ELSE IF DictHas(pool, PoolKey(env))
             THEN /\ tasks' = [tasks EXCEPT ![t] =
                                  [IdleTask EXCEPT !.h = DictValue(pool, PoolKey(env))]]
                  /\ lookups' = lookups \cup
                                    {[cred |-> env, h |-> DictValue(pool, PoolKey(env))]}
                  /\ UNCHANGED <<handles, pool>>
             ELSE /\ tasks' = [tasks EXCEPT ![t] = [Rested(t) EXCEPT !.pc = "looking"]]
                  /\ UNCHANGED <<handles, pool, lookups>>
       \/ /\ tasks[t].pc = "looking"
          /\ Len(handles) < MaxHandles
          /\ handles' = Append(handles, NewHandle(env.base_url.val, env.api_key.val,
                                                  env.core_url))
          /\ pool' = DictSet(pool, PoolKey(env), Len(handles) + 1)
          /\ tasks' = [tasks EXCEPT ![t] = [IdleTask EXCEPT !.h = Len(handles) + 1]]
          /\ lookups' = lookups \cup {[cred |-> env, h |-> Len(handles) + 1]}
    /\ UNCHANGED <<env, ctxs, closer>>

GetClient(t) ==
    /\ AtRest(t)
    /\ IF ~Truthy(env.base_url) \/ ~Truthy(env.api_key)
       THEN /\ tasks' = [tasks EXCEPT ![t] =
                            [Rested(t) EXCEPT !.pc = "failed",
                                              !.error = Err("ValueError", 0)]]
            /\ UNCHANGED <<handles, pool, lookups>>
       ELSE LET key == PoolKey(env)
                hit == DictHas(pool, key)
                h == IF hit THEN DictValue(pool, key) ELSE Len(handles) + 1
            IN  /\ hit \/ Len(handles) < MaxHandles
                /\ handles' = IF hit THEN handles
                              ELSE Append(handles,
                                          NewHandle(env.base_url.val, env.api_key.val,
                                                    env.core_url))
                /\ pool' = IF hit THEN pool ELSE DictSet(pool, key, h)
                /\ tasks' = [tasks EXCEPT ![t] = [IdleTask EXCEPT !.h = h]]
                /\ lookups' = lookups \cup {[cred |-> env, h |-> h]}
    /\ UNCHANGED <<env, ctxs, closer>>

----------------------------------------------------------------------------
(* APIClient._get_client and APIClient.request *)

\* The httpx.AsyncClient a handle builds: its fixed headers.
NewCtx(hd) ==
    [auth |-> <<"Bearer", " ">> \o hd.api_key,
     core |-> IF Truthy(hd.core_url) THEN hd.core_url ELSE None,
     closed |-> FALSE]

\* Mutant: a context is built on every call.
NeedsCtxAlways(h) == TRUE

\* _get_client has no suspension point: the check and the assignment are one step.
NeedsCtx(h) == handles[h].client = 0
CtxOf(h) == IF NeedsCtx(h) THEN Len(ctxs) + 1 ELSE handles[h].client

\* Entering `await client.request(...)` of attempt n on context c of the
\* contexts cs: a closed context raises RuntimeError, which request does not
\* catch; an open one suspends the task until the outcome arrives.
BeginAttempt(tk, cs, n) ==
    IF n >= RangeStop
    THEN [tk EXCEPT !.pc = "failed", !.attempt = n,
                    !.error = Err("ConnectionError", 0)]
    ELSE IF cs[tk.client].closed
    THEN [tk EXCEPT !.pc = "failed", !.attempt = n,
                    !.outcomes = Append(@, ClosedErr),
                    !.error = Err("RuntimeError", 0)]
    ELSE [tk EXCEPT !.pc = "attempting", !.attempt = n]

\* Mutant: _get_client suspends between its "is None" check and the
\* assignment, which a task resumed there carries out whatever it finds.
RequestStartSplit(t) ==
    /\ \/ /\ AtRest(t)
          /\ tasks[t].h # 0
          /\ IF NeedsCtx(tasks[t].h)
             THEN /\ tasks' = [tasks EXCEPT ![t] = [Rested(t) EXCEPT !.pc = "building"]]
                  /\ UNCHANGED <<ctxs, handles>>
             ELSE /\ tasks' = [tasks EXCEPT ![t] =
                                  BeginAttempt([Rested(t) EXCEPT
                                                   !.client = handles[tasks[t].h].client],
                                               ctxs, 0)]
                  /\ UNCHANGED <<ctxs, handles>>
       \/ /\ tasks[t].pc = "building"
          /\ Len(ctxs) < MaxCtx
          /\ ctxs' = Append(ctxs, NewCtx(handles[tasks[t].h]))
          /\ handles' = [handles EXCEPT ![tasks[t].h].client = Len(ctxs) + 1]
          /\ tasks' = [tasks EXCEPT ![t] =
                          BeginAttempt([tasks[t] EXCEPT !.client = Len(ctxs) + 1],
                                       Append(ctxs, NewCtx(handles[tasks[t].h])), 0)]
    /\ UNCHANGED <<env, pool, closer, lookups>>

RequestStart(t) ==
    /\ AtRest(t)
    /\ tasks[t].h # 0
    /\ LET h == tasks[t].h
           c == CtxOf(h)
           cs == IF NeedsCtx(h) THEN Append(ctxs, NewCtx(handles[h])) ELSE ctxs
       IN  /\ ~NeedsCtx(h) \/ Len(ctxs) < MaxCtx
           /\ ctxs' = cs
           /\ handles' = [handles EXCEPT ![h].client = c]
           /\ tasks' = [tasks EXCEPT ![t] =
                           BeginAttempt([Rested(t) EXCEPT !.client = c], cs, 0)]
    /\ UNCHANGED <<env, pool, closer, lookups>>

\* Mutants of the raise condition: the last attempt compared with the stop of
\* the range; the status test left out.
RaisesOffByOne(attempt, o) ==
    \/ attempt = RangeStop
    \/ o.kind = "response" /\ 400 <= o.status /\ o.status < 500
RaisesLastOnly(attempt, o) == attempt = LastAttempt

\* Mutant: the last attempt is not told apart, only a 4xx status raises.
RaisesClientErrorOnly(attempt, o) ==
    o.kind = "response" /\ 400 <= o.status /\ o.status < 500

\* Mutant: a failed attempt is retried only where the method is GET.
RaisesUnlessGet(attempt, o) ==
    \/ attempt = LastAttempt
    \/ o.kind = "response" /\ 400 <= o.status /\ o.status < 500
    \/ toolcall.reqs # <<>> /\ toolcall.reqs[Len(toolcall.reqs)].method # "GET"

\* The except clause of request: raise on the last attempt or on a 4xx status.
Raises(attempt, o) ==
    \/ attempt = LastAttempt
    \/ o.kind = "response" /\ 400 <= o.status /\ o.status < 500

\* Mutant: the raised error loses the response it came from.
ErrorOfNoStatus(o) ==
    IF o.kind = "neterr" THEN Err("RequestError", 0) ELSE Err("HTTPStatusError", 0)

\* The exception `raise` re-raises: the one the attempt ended with.
ErrorOf(o) ==
    IF o.kind = "neterr" THEN Err("RequestError", 0)
    ELSE Err("HTTPStatusError", o.status)

\* Mutant: the body is parsed whatever the status.
ReturnedAlwaysParse(o) == JsonLoads(o.body)

\* The value request returns for a response that raise_for_status accepted.
Returned(o) == IF o.status # 204 THEN JsonLoads(o.body)
               ELSE [ok |-> TRUE, value |-> EmptyObject]

\* Mutant: the except clause catches every exception, the decode error of
\* response.json() too, and retries it.
AttemptCompleteCatchesAll(t, o) ==
    /\ tasks[t].pc = "attempting"
    /\ LET tk == [tasks[t] EXCEPT !.outcomes = Append(@, o)]
       IN  tasks' = [tasks EXCEPT ![t] =
             IF o.kind = "response" /\ IsSuccess(o.status) /\ Returned(o).ok
             THEN [tk EXCEPT !.pc = "done", !.result = Returned(o).value]
             ELSE IF tk.attempt = LastAttempt
                     \/ (o.kind = "response" /\ 400 <= o.status /\ o.status < 500)
                  THEN [tk EXCEPT !.pc = "failed",
                                  !.error = IF o.kind = "response" /\ IsSuccess(o.status)
                                            THEN Err("JSONDecodeError", 0)
                                            ELSE ErrorOf(o)]
                  ELSE [tk EXCEPT !.pc = "sleeping",
                                  !.sleeps = Append(@, Pow2(tk.attempt))]]
    /\ UNCHANGED <<env, handles, ctxs, pool, closer, lookups>>

\* client.request returns or raises, and the run goes on to the return, the
\* raise or the sleep of this turn of the loop.
AttemptComplete(t, o) ==
    /\ tasks[t].pc = "attempting"
    /\ LET tk == [tasks[t] EXCEPT !.outcomes = Append(@, o)]
       IN  tasks' = [tasks EXCEPT ![t] =
             IF o.kind = "response" /\ IsSuccess(o.status)
             THEN IF Returned(o).ok
                  THEN [tk EXCEPT !.pc = "done", !.result = Returned(o).value]
                  ELSE [tk EXCEPT !.pc = "failed",
                                  !.error = Err("JSONDecodeError", 0)]
             ELSE IF Raises(tk.attempt, o)
                  THEN [tk EXCEPT !.pc = "failed", !.error = ErrorOf(o)]
                  ELSE [tk EXCEPT !.pc = "sleeping",
                                  !.sleeps = Append(@, Pow2(tk.attempt))]]
    /\ UNCHANGED <<env, handles, ctxs, pool, closer, lookups>>

\* Mutant: every turn of the loop obtains the context anew from _get_client.
SleepCompleteRebuilds(t) ==
    /\ tasks[t].pc = "sleeping"
    /\ LET h == tasks[t].h
           c == CtxOf(h)
           cs == IF NeedsCtx(h) THEN Append(ctxs, NewCtx(handles[h])) ELSE ctxs
       IN  /\ ~NeedsCtx(h) \/ Len(ctxs) < MaxCtx
           /\ ctxs' = cs
           /\ handles' = [handles EXCEPT ![h].client = c]
           /\ tasks' = [tasks EXCEPT ![t] =
                           BeginAttempt([tasks[t] EXCEPT !.client = c], cs,
                                        tasks[t].attempt + 1)]
    /\ UNCHANGED <<env, pool, closer, lookups>>

\* asyncio.sleep(delay) returns and the loop takes its next turn.
SleepComplete(t) ==
    /\ tasks[t].pc = "sleeping"
    /\ tasks' = [tasks EXCEPT ![t] = BeginAttempt(tasks[t], ctxs, tasks[t].attempt + 1)]
    /\ UNCHANGED <<env, handles, ctxs, pool, closer, lookups>>

----------------------------------------------------------------------------
(* APIClient.aclose, called on the handle a task holds *)

\* `if self._client:` is false: nothing happens.  On a context httpx has
\* already closed, httpx's aclose returns at once and the reference is cleared.
\* On an open one httpx marks it closed and the task awaits the transport.
AcloseBegin(t, h) ==
    /\ AtRest(t)
    /\ LET c == handles[h].client
       IN  IF c = 0
           THEN /\ tasks' = [tasks EXCEPT ![t] = [IdleTask EXCEPT !.h = h]]
                /\ UNCHANGED <<handles, ctxs>>
           ELSE IF ctxs[c].closed
           THEN /\ handles' = [handles EXCEPT ![h].client = 0]
                /\ tasks' = [tasks EXCEPT ![t] = [IdleTask EXCEPT !.h = h]]
                /\ UNCHANGED ctxs
           ELSE /\ ctxs' = [ctxs EXCEPT ![c].closed = TRUE]
                /\ tasks' = [tasks EXCEPT ![t] = [IdleTask EXCEPT !.h = h, !.pc = "closing"]]
                /\ UNCHANGED handles
    /\ UNCHANGED <<env, pool, closer, lookups>>

\* Mutant: the reference to the released context is kept.
AcloseEndKeepsRef(t) ==
    /\ tasks[t].pc = "closing"
    /\ tasks' = [tasks EXCEPT ![t] = Rested(t)]
    /\ UNCHANGED <<env, handles, ctxs, pool, closer, lookups>>

\* Mutant: the context reference is shared by the class, not held per handle.
AcloseEndAll(t) ==
    /\ tasks[t].pc = "closing"
    /\ handles' = [g \in 1..Len(handles) |-> [handles[g] EXCEPT !.client = 0]]
    /\ tasks' = [tasks EXCEPT ![t] = Rested(t)]
    /\ UNCHANGED <<env, ctxs, pool, closer, lookups>>

\* The awaited httpx aclose returns: self._client = None.
AcloseEnd(t) ==
    /\ tasks[t].pc = "closing"
    /\ handles' = [handles EXCEPT ![tasks[t].h].client = 0]
    /\ tasks' = [tasks EXCEPT ![t] = Rested(t)]
    /\ UNCHANGED <<env, ctxs, pool, closer, lookups>>

----------------------------------------------------------------------------
(* APIClientManager.close_all *)

\* The for loop over self._clients.values() from position i on, with the
\* handles hs: it runs on through handles with no context or an already
\* closed one and stops at the first open context (at), or ends (at = 0).
RECURSIVE CloseScan(_, _)

\* Mutant: the loop ends at a handle that never built a context.
CloseScanUnbuiltEnds(hs, i) ==
    IF i > Len(pool) THEN [hs |-> hs, at |-> 0]
    ELSE LET h == pool[i].h
             c == hs[h].client
         IN  IF c = 0 THEN [hs |-> hs, at |-> 0]
             ELSE IF ctxs[c].closed
                  THEN CloseScan([hs EXCEPT ![h].client = 0], i + 1)
                  ELSE [hs |-> hs, at |-> i]

CloseScan(hs, i) ==
    IF i > Len(pool) THEN [hs |-> hs, at |-> 0]
    ELSE LET h == pool[i].h
             c == hs[h].client
         IN  IF c = 0 THEN CloseScan(hs, i + 1)
             ELSE IF ctxs[c].closed
                  THEN CloseScan([hs EXCEPT ![h].client = 0], i + 1)
                  ELSE [hs |-> hs, at |-> i]

\* One run of close_all from iterator position i to its next suspension
\* point, its return, or the RuntimeError of a dict iterator whose dict
\* changed size.
CloseRun(hs, i, used, calls) ==
    IF Len(pool) # used
    THEN /\ closer' = [IdleCloser EXCEPT !.pc = "failed", !.calls = calls,
                                         !.error = Err("RuntimeError", 0)]
         /\ handles' = hs
         /\ UNCHANGED <<ctxs, pool>>
    ELSE LET r == CloseScan(hs, i)
         IN  IF r.at = 0
             THEN /\ closer' = [IdleCloser EXCEPT !.pc = "done", !.calls = calls]
                  /\ handles' = r.hs
                  /\ pool' = <<>>
                  /\ UNCHANGED ctxs
             ELSE /\ closer' = [pc |-> "closing", pos |-> r.at + 1, used |-> used,
                                h |-> pool[r.at].h, calls |-> calls,
                                error |-> NoError]
                  /\ handles' = r.hs
                  /\ ctxs' = [ctxs EXCEPT ![r.hs[pool[r.at].h].client].closed = TRUE]
                  /\ UNCHANGED pool

\* A call of close_all, the max-th at most of the behaviour.
CloseAllCall(max) ==
    /\ closer.pc \in {"idle", "done", "failed"}
    /\ closer.calls < max
    /\ CloseRun(handles, 1, Len(pool), closer.calls + 1)
    /\ lookups' = {}
    /\ UNCHANGED <<env, tasks>>

CloseAllStart == CloseAllCall(MaxCloseAll)

\* The awaited aclose of the handle under the iterator returns.
CloseAllResume ==
    /\ closer.pc = "closing"
    /\ CloseRun([handles EXCEPT ![closer.h].client = 0], closer.pos, closer.used,
                closer.calls)
    /\ lookups' = {}
    /\ UNCHANGED <<env, tasks>>

----------------------------------------------------------------------------
(* app_lifespan: the lifespan hook of the server *)

\* Entering the context manager: it constructs an APIClientManager of its
\* own, stores it on the server's state and yields.
LifeStartup ==
    /\ life.pc = "init"
    /\ life' = [life EXCEPT !.pc = "running", !.clients = <<>>]
    /\ UNCHANGED <<clientvars, toolcall>>

\* Leaving it: close_all on the manager it constructed, run to its end:
\* the context of every handle of that manager is closed and the reference
\* to it cleared, then the manager's dict is cleared.
LifeShutdown ==
    /\ life.pc = "running"
    /\ LET mine == {life.clients[i].h : i \in 1..Len(life.clients)}
       IN  /\ ctxs' = [c \in 1..Len(ctxs) |->
                         IF \E h \in mine : handles[h].client = c
                         THEN [ctxs[c] EXCEPT !.closed = TRUE] ELSE ctxs[c]]
           /\ handles' = [h \in 1..Len(handles) |->
                            IF h \in mine THEN [handles[h] EXCEPT !.client = 0]
                            ELSE handles[h]]
    /\ life' = [pc |-> "stopped", clients |-> <<>>, closes |-> life.closes + 1]
    /\ UNCHANGED <<env, pool, tasks, closer, lookups, toolcall>>

----------------------------------------------------------------------------
(* The tools: cutover_mcp/tools/*.py and ping of cutover_mcp/server.py *)

\* Tools by the identifiers their path takes.
NoIdTools == {"query_workspaces", "list_workspaces", "create_workspace",
              "list_runbooks", "create_runbook", "get_action_logs",
              "list_task_types"}
OneIdTools == {"get_workspace_by_id", "list_streams", "create_stream",
               "get_runbook_by_id", "get_runbook_tasks", "add_task_to_runbook"}
TwoIdTools == {"get_stream", "update_stream", "delete_stream",
               "update_runbook_task", "start_task", "complete_task", "skip_task"}
ApiTools == NoIdTools \cup OneIdTools \cup TwoIdTools \cup {"manage_runbook"}
Tools == ApiTools \cup {"ping"}

\* The tools cutover_mcp/tools/runbooks.py defines.
RunbookTools == {"get_runbook_by_id", "list_runbooks", "get_runbook_tasks",
                 "create_runbook", "manage_runbook"}

\* The tools that pass the response to a pydantic response model, by model.
SingleModelTools == {"add_task_to_runbook", "update_runbook_task", "start_task",
                     "complete_task", "skip_task", "get_runbook_by_id",
                     "create_runbook", "create_stream", "get_stream", "update_stream"}
ListModelTools == {"list_runbooks", "get_runbook_tasks", "list_streams"}

\* The arguments drawn: r is the runbook or workspace id, x the task or
\* stream id, action the action of manage_runbook, "stop" not being one.
Ids == {"a", "b"}
Actions == {"start", "cancel", "pause", "resume", "stop"}
NoArg == ""
Args(r, x, action) == [r |-> r, x |-> x, action |-> action]

ToolArgs(tool) ==
    CASE tool \in OneIdTools -> {Args(r, NoArg, NoArg) : r \in Ids}
      [] tool \in TwoIdTools -> {Args(r, x, NoArg) : r \in Ids, x \in Ids}
      [] tool = "manage_runbook" -> {Args(r, NoArg, ac) : r \in Ids, ac \in Actions}
      [] OTHER -> {Args(NoArg, NoArg, NoArg)}

\* list(endpoint_map.keys()) of manage_runbook.
EndpointKeys == <<"start", "cancel", "pause", "resume">>

\* Mutant: every action is taken for a key of endpoint_map.
ToolValidAnyAction(tool, a) == TRUE

\* manage_runbook: action not in endpoint_map raises ValueError.
ToolValid(tool, a) ==
    tool = "manage_runbook" => \E i \in 1..Len(EndpointKeys) : a.action = EndpointKeys[i]

\* The texts of the ValueErrors: get_client's, and manage_runbook's
\* f"Invalid action: {action}. Must be one of {list(endpoint_map.keys())}.",
\* the pieces of the f-string in order.
ConfigMessage == <<"CUTOVER_BASE_URL and CUTOVER_API_TOKEN must be set.">>
InvalidActionMessage(action) ==
    <<"Invalid action: ", action, ". Must be one of ">> \o EndpointKeys \o <<".">>

ToolMethod(tool) ==
    CASE tool \in {"create_workspace", "create_stream", "create_runbook",
                   "add_task_to_runbook"} -> "POST"
      [] tool \in {"update_stream", "manage_runbook", "update_runbook_task",
                   "start_task", "complete_task", "skip_task"} -> "PATCH"
      [] tool = "delete_stream" -> "DELETE"
      [] OTHER -> "GET"

\* Mutant: the identifiers are left out of the endpoint.
ToolPathNoIds(tool, a) ==
    IF tool \in {"get_workspace_by_id", "query_workspaces", "list_workspaces",
                 "create_workspace"}
    THEN <<"core", "/", "workspaces">>
    ELSE <<"core", "/", "runbooks">>

\* The endpoint each tool passes to request.
Runbook(r) == <<"core", "/", "runbooks", "/", r>>
ToolPath(tool, a) ==
    CASE tool = "get_workspace_by_id" -> <<"core", "/", "workspaces", "/", a.r>>
      [] tool \in {"query_workspaces", "list_workspaces", "create_workspace"} ->
             <<"core", "/", "workspaces">>
      [] tool \in {"list_streams", "create_stream"} -> Runbook(a.r) \o <<"/", "streams">>
      [] tool \in {"get_stream", "update_stream", "delete_stream"} ->
             Runbook(a.r) \o <<"/", "streams", "/", a.x>>
      [] tool = "get_runbook_by_id" -> Runbook(a.r)
      [] tool \in {"list_runbooks", "create_runbook"} -> <<"core", "/", "runbooks">>
      [] tool \in {"get_runbook_tasks", "add_task_to_runbook"} ->
             Runbook(a.r) \o <<"/", "tasks">>
      [] tool = "manage_runbook" -> Runbook(a.r) \o <<"/", a.action>>
      [] tool = "update_runbook_task" -> Runbook(a.r) \o <<"/", "tasks", "/", a.x>>
      [] tool = "start_task" -> Runbook(a.r) \o <<"/", "tasks", "/", a.x, "/", "start">>
      [] tool = "complete_task" ->
             Runbook(a.r) \o <<"/", "tasks", "/", a.x, "/", "finish">>
      [] tool = "skip_task" -> Runbook(a.r) \o <<"/", "tasks", "/", a.x, "/", "skip">>
      [] tool = "get_action_logs" -> <<"core", "/", "action_logs">>
      [] tool = "list_task_types" -> <<"core", "/", "task_types">>

\* Model(**response): by the required fields of JsonApiSingleResponse and
\* JsonApiListResponse; a tool with no response model returns the object.
HasMember(v, name) == \E m \in v : m[1] = name
Constructs(tool, v) ==
    CASE tool \in SingleModelTools -> HasMember(v, "data")
      [] tool \in ListModelTools ->
             HasMember(v, "data") /\ HasMember(v, "meta") /\ HasMember(v, "links")
      [] OTHER -> TRUE

PingResult == {<<"message", "Cutover MCP Server is running!">>}

\* The parameters of the tools that have a default, by tool.  The value of
\* one is an optional text, the text standing for the value passed.
OptNames(tool) ==
    CASE tool = "get_action_logs" ->
             {"runbook_id", "user_id", "workspace_id", "created_after", "created_before"}
      [] tool = "manage_runbook" ->
             {"comms", "disable_task_notify", "run_type", "rebaseline",
              "shift_fixed_times", "validation_level", "message", "notify"}
      [] tool = "add_task_to_runbook" -> {"task_type_id", "stream_id"}
      [] tool = "update_runbook_task" ->
             {"name", "description", "predecessors", "task_type_id", "stream_id"}
      [] tool = "create_stream" -> {"description", "color", "parent_stream_id"}
      [] tool = "update_stream" -> {"name", "description", "color"}
      [] tool = "list_streams" -> {"forecast"}
      [] OTHER -> {}

PyFalse == <<"False">>
Text(s) == <<s>>

\* The defaults of the signatures.
Defaults(tool) ==
    [n \in OptNames(tool) |->
        IF n \in {"disable_task_notify", "rebaseline", "shift_fixed_times", "notify",
                  "forecast"}
        THEN Some(PyFalse)
        ELSE IF n = "validation_level" THEN Some(Text("error"))
        ELSE IF tool = "create_stream" /\ n = "description" THEN Some(<<>>)
        ELSE None]

\* The values drawn for one parameter: None, the empty text, a text.
OptValues == {None, Some(<<>>), Some(Text("v"))}

\* The valuations drawn where the payloads are under study: every parameter
\* left as None or every parameter supplied, but for one that takes any value.
Valuations(tool) ==
    {Defaults(tool)} \cup
    { [n \in OptNames(tool) |-> IF n = one THEN v ELSE rest] :
          one \in OptNames(tool), v \in OptValues, rest \in {None, Some(Text("v"))} }

\* Python truthiness of a bool | str | None.
BoolTruthy(o) == Truthy(o) /\ o.val # PyFalse

\* The arguments with no default, which the model fixes.
Name == Text("n")
Query == Text("q")
WorkspaceId == Text("w")

\* Mutant: the members whose value is None are kept.
NotNoneKeepsAll(names, o) == {<<n, o[n].val>> : n \in names}

\* The members a payload gets for the parameters named: the ones that are
\* not None ("if v is not None"), and the ones that are truthy ("if v:").
NotNone(names, o) == {<<n, o[n].val>> : n \in {m \in names : o[m].set}}
IfTruthy(names, o) == {<<n, o[n].val>> : n \in {m \in names : Truthy(o[m])}}

\* {"data": {"id": id, "type": type}}
Data(id, type) == {<<"data", {<<"id", id>>, <<"type", Text(type)>>}>>}

\* The relationships dict of add_task_to_runbook and update_runbook_task.
TaskRelationships(tool, o) ==
    (IF tool = "update_runbook_task" /\ o["predecessors"].set
     THEN {<<"predecessors",
             {<<"data", [i \in 1..Len(o["predecessors"].val) |->
                            {<<"id", Text(o["predecessors"].val[i])>>,
                             <<"type", Text("task")>>}]>>}>>}
     ELSE {})
    \cup (IF o["task_type_id"].set
          THEN {<<"task_type", Data(o["task_type_id"].val, "task_type")>>} ELSE {})
    \cup (IF o["stream_id"].set
          THEN {<<"stream", Data(o["stream_id"].val, "stream")>>} ELSE {})

\* "if relationships: payload["data"]["relationships"] = relationships"
IfAny(rel) == IF rel # {} THEN {<<"relationships", rel>>} ELSE {}

StartKeys == {"comms", "disable_task_notify", "run_type", "rebaseline",
              "shift_fixed_times", "validation_level"}
OtherKeys == {"message", "notify"}

\* json_data of the one call of request each tool makes: None where the
\* tool passes none.
ToolJson(tool, a, o) ==
    CASE tool = "create_workspace" ->
             Some({<<"data", {<<"type", Text("workspace")>>,
                              <<"attributes", {<<"name", Name>>, <<"description", <<>>>>,
                                               <<"key", <<>>>>}>>}>>})
      [] tool = "create_runbook" ->
             Some({<<"data", {<<"type", Text("runbook")>>,
                              <<"attributes", {<<"name", Name>>, <<"description", <<>>>>}>>,
                              <<"relationships",
                                {<<"workspace", Data(WorkspaceId, "workspace")>>}>>}>>})
      [] tool = "manage_runbook" ->
             Some({<<"meta", NotNone(IF a.action = "start" THEN StartKeys ELSE OtherKeys,
                                     o)>>})
      [] tool = "add_task_to_runbook" ->
             Some({<<"data", {<<"type", Text("task")>>,
                              <<"attributes", {<<"name", Name>>, <<"description", <<>>>>}>>}
                             \cup IfAny(TaskRelationships(tool, o))>>})
      [] tool = "update_runbook_task" ->
             Some({<<"data", {<<"type", Text("task")>>, <<"id", Text(a.x)>>,
                              <<"attributes", NotNone({"name", "description"}, o)>>}
                             \cup IfAny(TaskRelationships(tool, o))>>})
      [] tool = "create_stream" ->
             Some({<<"data", {<<"type", Text("stream")>>,
                              <<"attributes", {<<"name", Name>>}
                                  \cup IfTruthy({"description", "color"}, o)>>}
                             \cup (IF o["parent_stream_id"].set
                                   THEN {<<"relationships",
                                           {<<"parent", Data(o["parent_stream_id"].val,
                                                             "stream")>>}>>}
                                   ELSE {})>>})
      [] tool = "update_stream" ->
             Some({<<"data", {<<"type", Text("stream")>>, <<"id", Text(a.x)>>,
                              <<"attributes",
                                NotNone({"name", "description", "color"}, o)>>}>>})
      [] OTHER -> None

\* params of that call: None where the tool passes none.
ToolParams(tool, a, o) ==
    CASE tool = "list_streams" ->
             Some(IF BoolTruthy(o["forecast"]) THEN {<<"forecast", Text("true")>>} ELSE {})
      [] tool = "query_workspaces" -> Some({<<"query", Query>>})
      [] tool = "list_workspaces" ->
             Some({<<"page[limit]", Text("50")>>, <<"page[offset]", Text("0")>>})
      [] tool = "list_runbooks" -> Some({<<"workspace_id", WorkspaceId>>})
      [] tool = "get_action_logs" ->
             Some({<<"page[number]", Text("1")>>, <<"page[size]", Text("50")>>}
                  \cup IfTruthy(OptNames(tool), o))
      [] OTHER -> None

\* A tool coroutine is entered by task t1.  ping returns at once.  Every
\* other tool calls client_mgr.get_client first, whose ValueError ends it.
ToolEnter(tool, a, o) ==
    /\ toolcall.pc \in {"idle", "done", "failed"}
    /\ IF tool = "ping"
       THEN /\ AtRest("t1")
            /\ toolcall' = [IdleTool EXCEPT !.pc = "done", !.tool = tool, !.args = a,
                                            !.opts = o, !.result = PingResult]
            /\ UNCHANGED clientvars
       ELSE /\ GetClient("t1")
            /\ toolcall' =
                  IF Valid(env)
                  THEN [IdleTool EXCEPT !.pc = "resolved", !.tool = tool, !.args = a,
                                        !.opts = o, !.gets = 1]
                  ELSE [IdleTool EXCEPT !.pc = "failed", !.tool = tool, !.args = a,
                                        !.opts = o, !.gets = 1,
                                        !.error = Err("ValueError", 0),
                                        !.msg = ConfigMessage]
    /\ UNCHANGED life

\* Mutant: the tool returns an empty result where request raised.
ToolResultSwallows(tool, tk) ==
    IF tk.pc = "failed" THEN [pc |-> "done", result |-> EmptyObject, error |-> NoError]
    ELSE IF Constructs(tool, tk.result)
    THEN [pc |-> "done", result |-> tk.result, error |-> NoError]
    ELSE [pc |-> "failed", result |-> EmptyObject, error |-> Err("ValidationError", 0)]

\* The same run of the coroutine goes on, no other coroutine being scheduled
\* in between: the tool checks its arguments and calls request, once, with
\* its method and endpoint; the run ends where request first awaits.
ToolProceed ==
    /\ toolcall.pc = "resolved"
    /\ IF ~ToolValid(toolcall.tool, toolcall.args)
       THEN /\ toolcall' = [toolcall EXCEPT
                                !.pc = "failed",
                                !.error = Err("ValueError", 0),
                                !.msg = InvalidActionMessage(toolcall.args.action)]
            /\ UNCHANGED clientvars
       ELSE /\ RequestStart("t1")
            /\ toolcall' =
                  [toolcall EXCEPT
                      !.pc = "awaiting",
                      !.reqs = Append(@,
                          [method |-> ToolMethod(toolcall.tool),
                           path |-> ToolPath(toolcall.tool, toolcall.args),
                           url |-> Url(handles[tasks["t1"].h].base_url,
                                       ToolPath(toolcall.tool, toolcall.args)),
                           json_data |-> ToolJson(toolcall.tool, toolcall.args,
                                                  toolcall.opts),
                           params |-> ToolParams(toolcall.tool, toolcall.args,
                                                 toolcall.opts)])]
    /\ UNCHANGED life

\* What the tool ends with when request has ended as the record tk says: the
\* exception request raised, raised on; or the response, passed through the
\* tool's response model where it has one.
ToolResult(tool, tk) ==
    IF tk.pc = "failed" THEN [pc |-> "failed", result |-> EmptyObject, error |-> tk.error]
    ELSE IF Constructs(tool, tk.result)
    THEN [pc |-> "done", result |-> tk.result, error |-> NoError]
    ELSE [pc |-> "failed", result |-> EmptyObject, error |-> Err("ValidationError", 0)]

\* request has returned or raised: the tool coroutine ends.
ToolReturn ==
    /\ toolcall.pc = "awaiting"
    /\ tasks["t1"].pc \in {"done", "failed"}
    /\ toolcall' = [toolcall EXCEPT
                        !.pc = ToolResult(toolcall.tool, tasks["t1"]).pc,
                        !.result = ToolResult(toolcall.tool, tasks["t1"]).result,
                        !.error = ToolResult(toolcall.tool, tasks["t1"]).error]
    /\ UNCHANGED <<clientvars, life>>

----------------------------------------------------------------------------
(* Specifications *)

\* The request policy under study: one call at a time by t1, whose handle and
\* context the other task and close_all may close at any suspension point.
Next ==
    \/ GetClient("t1") /\ UNCHANGED appvars
    \/ RequestStart("t1") /\ UNCHANGED appvars
    \/ \E o \in Outcomes : AttemptComplete("t1", o) /\ UNCHANGED appvars
    \/ SleepComplete("t1") /\ UNCHANGED appvars
    \/ \E h \in 1..Len(handles) : AcloseBegin("t2", h) /\ UNCHANGED appvars
    \/ AcloseEnd("t2") /\ UNCHANGED appvars
    \/ CloseAllStart /\ UNCHANGED appvars
    \/ CloseAllResume /\ UNCHANGED appvars

Spec == Init /\ [][Next]_vars

\* The pool under study: lookups under a changing environment, with requests
\* that build contexts and closes of single handles and of the whole pool.
InitPool ==
    /\ Init
    /\ env \in PoolEnvStates

NextPool ==
    \/ \E e \in PoolEnvStates : SetEnv(e) /\ UNCHANGED appvars
    \/ GetClient("t1") /\ UNCHANGED appvars
    \/ RequestStart("t1") /\ UNCHANGED appvars
    \/ \E o \in PoolOutcomes : AttemptComplete("t1", o) /\ UNCHANGED appvars
    \/ \E h \in 1..Len(handles) : AcloseBegin("t2", h) /\ UNCHANGED appvars
    \/ AcloseEnd("t2") /\ UNCHANGED appvars
    \/ CloseAllStart /\ UNCHANGED appvars
    \/ CloseAllResume /\ UNCHANGED appvars

SpecPool == InitPool /\ [][NextPool]_vars

\* The request policy with the scheduling the event loop gives it: an awaited
\* network attempt ends (httpx applies its timeout) and an awaited sleep ends.
SpecLive ==
    /\ Spec
    /\ WF_vars(\E o \in Outcomes : AttemptComplete("t1", o) /\ UNCHANGED appvars)
    /\ WF_vars(SleepComplete("t1") /\ UNCHANGED appvars)

\* Teardown under study: lookups, requests and handle closes populate the
\* pool; then, every task at rest and none scheduled any more, close_all is
\* called, and called again when it has returned.
NextClose ==
    \/ /\ closer = IdleCloser
       /\ \/ \E e \in PoolEnvStates : SetEnv(e)
          \/ GetClient("t1")
          \/ RequestStart("t1")
          \/ \E o \in PoolOutcomes : AttemptComplete("t1", o)
          \/ \E h \in 1..Len(handles) : AcloseBegin("t2", h)
          \/ AcloseEnd("t2")
       /\ UNCHANGED appvars
    \/ /\ \A t \in Tasks : AtRest(t)
       /\ CloseAllCall(MaxTeardown)
       /\ UNCHANGED appvars
    \/ CloseAllResume /\ UNCHANGED appvars

SpecClose == InitPool /\ [][NextClose]_vars

\* The configuration check under study: lookups and requests by one task
\* under an environment that changes between all the states drawn.
NextEnv ==
    \/ \E e \in EnvStates : SetEnv(e) /\ UNCHANGED appvars
    \/ GetClient("t1") /\ UNCHANGED appvars
    \/ RequestStart("t1") /\ UNCHANGED appvars
    \/ \E o \in PoolOutcomes : AttemptComplete("t1", o) /\ UNCHANGED appvars

SpecEnv == Init /\ [][NextEnv]_vars

\* Concurrent callers under study: every task looks up and requests, under
\* one environment, each suspended in its attempts and sleeps while the
\* others run.
NextConc ==
    \/ \E t \in Tasks : GetClient(t) /\ UNCHANGED appvars
    \/ \E t \in Tasks : RequestStart(t) /\ UNCHANGED appvars
    \/ \E t \in Tasks, o \in ConcOutcomes : AttemptComplete(t, o) /\ UNCHANGED appvars
    \/ \E t \in Tasks : SleepComplete(t) /\ UNCHANGED appvars

SpecConc == Init /\ [][NextConc]_vars

\* The tools under study: task t1 runs one tool call after the other, each
\* with any tool and arguments, under one environment.
NextTools ==
    \/ \E tool \in Tools : \E a \in ToolArgs(tool) : ToolEnter(tool, a, Defaults(tool))
    \/ ToolProceed
    \/ \E o \in ToolOutcomes : AttemptComplete("t1", o) /\ UNCHANGED appvars
    \/ SleepComplete("t1") /\ UNCHANGED appvars
    \/ ToolReturn

SpecTools == InitPool /\ [][NextTools]_vars

\* The payloads under study: one tool call, with any tool, arguments and
\* valuation drawn for its parameters, under one configured environment.
InitPayload ==
    /\ Init
    /\ env = MkEnv(Some(<<"u">>), Some(<<"k">>), None)

NextPayload ==
    \/ /\ toolcall = IdleTool
       /\ \E tool \in ApiTools : \E a \in ToolArgs(tool) : \E o \in Valuations(tool) :
              ToolEnter(tool, a, o)
    \/ ToolProceed
    \/ \E o \in PoolOutcomes : AttemptComplete("t1", o) /\ UNCHANGED appvars
    \/ ToolReturn

SpecPayload == InitPayload /\ [][NextPayload]_vars

\* The life of the process under study: the server enters the lifespan hook,
\* serves tool calls, which look up handles and send requests, under an
\* environment that may change, and leaves the hook.
NextLife ==
    \/ LifeStartup
    \/ /\ life.pc = "running"
       /\ \/ \E e \in PoolEnvStates : SetEnv(e)
          \/ GetClient("t1")
          \/ RequestStart("t1")
          \/ \E o \in PoolOutcomes : AttemptComplete("t1", o)
       /\ UNCHANGED appvars
    \/ LifeShutdown

SpecLife == InitPool /\ [][NextLife]_vars

----------------------------------------------------------------------------
(* Properties of request *)

Terminal(tk) == tk.pc \in {"done", "failed"}
InCall(tk) == tk.pc \in {"attempting", "sleeping"}
Last(s) == s[Len(s)]

RECURSIVE SumSeq(_)
SumSeq(s) == IF s = <<>> THEN 0 ELSE s[1] + SumSeq(Tail(s))

\* The failures the retry policy is stated for.
Retryable(o) == o.kind = "neterr" \/ (o.kind = "response" /\ o.status >= 500)
ClientError(o) == o.kind = "response" /\ 400 <= o.status /\ o.status < 500
Succeeds(o) == o.kind = "response" /\ 200 <= o.status /\ o.status < 300

\* C1: a call whose every attempt fails with a network error makes exactly 3
\* attempts, sleeps 1 after the 1st and 2 after the 2nd, does not sleep after
\* the 3rd, and raises the network error.
C1_NetworkErrorRetryBound ==
    \A t \in Tasks :
        LET tk == tasks[t]
            n == Len(tk.outcomes)
        IN  (n > 0 /\ \A i \in 1..n : tk.outcomes[i] = NetErr) =>
                /\ n <= 3
                /\ tk.pc \in {"sleeping", "attempting", "failed"}
                /\ tk.pc = "sleeping" => n < 3 /\ tk.sleeps = SubSeq(<<1, 2>>, 1, n)
                /\ tk.pc = "attempting" => n < 3 /\ tk.sleeps = SubSeq(<<1, 2>>, 1, n)
                /\ tk.pc = "failed" =>
                      n = 3 /\ tk.sleeps = <<1, 2>> /\ tk.error.kind = "RequestError"

C1_Witness ==
    /\ tasks["t1"].pc = "failed"
    /\ tasks["t1"].outcomes = <<NetErr, NetErr, NetErr>>

\* C2: a response with a status in [400, 500) is terminal on whichever
\* attempt it arrives: the call raises that status error, no attempt and no
\* sleep follows it; a 404 on the first attempt gives exactly one attempt.
C2_ClientErrorIsTerminal ==
    \A t \in Tasks :
        LET tk == tasks[t]
            n == Len(tk.outcomes)
        IN  \A i \in 1..n :
                ClientError(tk.outcomes[i]) =>
                    /\ i = n
                    /\ tk.pc = "failed"
                    /\ tk.error = Err("HTTPStatusError", tk.outcomes[i].status)
                    /\ Len(tk.sleeps) = n - 1

C2_Witness ==
    /\ tasks["t1"].pc = "failed"
    /\ Len(tasks["t1"].outcomes) = 2
    /\ tasks["t1"].outcomes[2] = Resp(404, "{}")

\* C3: an attempt is followed by another attempt only if it ended in a network
\* error or a status >= 500; a 1xx, 3xx or 4xx response is never followed by
\* another attempt.
C3_RetryOnlyNetworkOrServerError ==
    \A t \in Tasks :
        LET tk == tasks[t]
            n == Len(tk.outcomes)
        IN  /\ \A i \in 1..(n - 1) : Retryable(tk.outcomes[i])
            /\ tk.pc \in {"sleeping", "attempting"} =>
                   \A i \in 1..n : Retryable(tk.outcomes[i])

\* C4: when the attempts before the k-th fail retryably and the k-th succeeds,
\* the call returns the k-th attempt's value after exactly k attempts and a
\* total sleep of 0, 1 or 3; 503, 503, 200 {"id":"1"} returns {"id":"1"}
\* after 3 attempts and 3 units of backoff.
C4_SuccessAfterRetries ==
    \A t \in Tasks :
        LET tk == tasks[t]
            n == Len(tk.outcomes)
            o == Last(tk.outcomes)
        IN  (/\ n > 0
             /\ Terminal(tk)
             /\ \A i \in 1..(n - 1) : Retryable(tk.outcomes[i])
             /\ Succeeds(o)
             /\ o.status = 204 \/ o.body = "{\"id\":\"1\"}") =>
                /\ tk.pc = "done"
                /\ tk.result = IF o.status = 204 THEN {} ELSE {<<"id", "1">>}
                /\ n \in 1..3
                /\ Len(tk.sleeps) = n - 1
                /\ SumSeq(tk.sleeps) = <<0, 1, 3>>[n]

C4_Witness ==
    /\ tasks["t1"].pc = "done"
    /\ tasks["t1"].outcomes =
           <<Resp(503, ""), Resp(503, ""), Resp(200, "{\"id\":\"1\"}")>>
    /\ tasks["t1"].result = {<<"id", "1">>}
    /\ SumSeq(tasks["t1"].sleeps) = 3

\* C5: a successful attempt with status 204 makes the call return the empty
\* object whatever its body holds (an empty body is not JSON); any other 2xx
\* makes it return the parsed body.
C5_NoContentIsEmptyObject ==
    \A t \in Tasks :
        LET tk == tasks[t]
            o == Last(tk.outcomes)
        IN  (tk.outcomes # <<>> /\ Succeeds(o)) =>
                IF o.status = 204
                THEN tk.pc = "done" /\ tk.result = {}
                ELSE /\ o.body = "{\"id\":\"1\"}" =>
                            tk.pc = "done" /\ tk.result = {<<"id", "1">>}
                     /\ o.body = "{}" => tk.pc = "done" /\ tk.result = {}
                     /\ o.body \in {"", "<html>"} =>
                            tk.pc = "failed" /\ tk.error.kind = "JSONDecodeError"

C5_Witness ==
    /\ tasks["t1"].pc = "done"
    /\ Last(tasks["t1"].outcomes) = Resp(204, "")
    /\ tasks["t1"].result = {}

\* The steps of the per-call state machine, as the task record shows them.
C6_StepOK(t) ==
    LET tk == tasks[t]
        tk2 == tasks'[t]
    IN  /\ tk.pc = "attempting" /\ tk2 # tk =>
              /\ tk2.outcomes = Append(tk.outcomes, Last(tk2.outcomes))
              /\ tk2.attempt = tk.attempt
              /\ tk2.pc \in {"done", "failed", "sleeping"}
              /\ Succeeds(Last(tk2.outcomes)) => tk2.pc \in {"done", "failed"}
              /\ tk2.pc = "done" => Succeeds(Last(tk2.outcomes))
              /\ tk2.pc = "sleeping" => tk.attempt < 2
        /\ tk.pc = "sleeping" /\ tk2 # tk =>
              /\ tk2.attempt = tk.attempt + 1
              /\ tk2.pc \in {"attempting", "failed"}
        /\ Terminal(tk) /\ tk2 # tk =>
              \* a new call, not a step of the ended one
              /\ tk2.attempt = 0 /\ tk2.sleeps = <<>>
              /\ tk2.outcomes \in {<<>>, <<ClosedErr>>}

\* The states of the per-call state machine.
C6_StateOK(t) ==
    LET tk == tasks[t]
    IN  /\ tk.attempt \in 0..2
        /\ Len(tk.outcomes) <= 3
        /\ InCall(tk) \/ Terminal(tk) =>
              Len(tk.outcomes) = tk.attempt + (IF tk.pc = "attempting" THEN 0 ELSE 1)
              \/ (tk.pc = "failed" /\ tk.error.kind = "ValueError")
        /\ tk.pc = "done" => tk.error = NoError
        /\ tk.pc = "failed" => tk.error # NoError

\* C6: a call follows Attempt(1) -> ... : a success ends it in Done, a failure
\* ends it in Failed or, before the 3rd attempt, leads through a sleep to the
\* next attempt; it makes at most 3 attempts, is in exactly one terminal
\* state once ended, stays there, and, attempts and sleeps completing, ends.
C6_CallStateMachine ==
    /\ [](\A t \in Tasks : C6_StateOK(t))
    /\ [][\A t \in Tasks : C6_StepOK(t)]_vars
    /\ \A t \in Tasks : InCall(tasks[t]) ~> Terminal(tasks[t])

C6_Witness ==
    /\ tasks["t1"].pc = "done"
    /\ Len(tasks["t1"].outcomes) = 3
    /\ tasks["t1"].outcomes[1] = NetErr

\* C7: no failed attempt is swallowed: after a failed attempt the call is
\* sleeping before, or in, one of the attempts left to it, or it has ended in
\* Failed; it ended in Failed with the error of its last attempt,
\* the status of its response included; a call that returned a value ended
\* with a successful attempt.
C7_LastErrorPropagates ==
    \A t \in Tasks :
        LET tk == tasks[t]
            o == Last(tk.outcomes)
        IN  tk.outcomes # <<>> =>
                /\ tk.pc = "done" => Succeeds(o)
                /\ ~Succeeds(o) => tk.pc \in {"failed", "sleeping", "attempting"}
                /\ tk.pc \in {"sleeping", "attempting"} => Len(tk.outcomes) < 3
                /\ tk.pc = "failed" =>
                      /\ o.kind = "neterr" => tk.error = Err("RequestError", 0)
                      /\ o.kind = "response" /\ ~Succeeds(o) =>
                             tk.error = Err("HTTPStatusError", o.status)
                      /\ o.kind = "closed" => tk.error = Err("RuntimeError", 0)
                      /\ Succeeds(o) => tk.error = Err("JSONDecodeError", 0)

C7_Witness ==
    /\ tasks["t1"].pc = "failed"
    /\ tasks["t1"].outcomes = <<NetErr, Resp(503, ""), Resp(503, "")>>
    /\ tasks["t1"].error = Err("HTTPStatusError", 503)

----------------------------------------------------------------------------
(* Properties of the pool *)

\* C8: the pool holds at most one handle per credential set, and get_client
\* calls under one valid environment state with no close_all between them
\* return one handle instance, which is the pool's entry for that state,
\* whatever lookups and handle closes happen in between.
C8_IdempotentPooling ==
    /\ \A e \in PoolEnvStates :
           Cardinality({i \in 1..Len(pool) : pool[i].key = PoolKey(e)}) <= 1
    /\ \A l1, l2 \in lookups : l1.cred = l2.cred => l1.h = l2.h
    /\ \A l \in lookups :
           /\ Valid(l.cred)
           /\ \E i \in 1..Len(pool) : pool[i] = [key |-> PoolKey(l.cred), h |-> l.h]

\* The handle of the first lookup built a context, the context was closed
\* and cleared, and a second lookup under the same environment returned it.
C8_Witness ==
    /\ closer.calls = 0
    /\ Len(handles) = 1 /\ handles[1].client = 0
    /\ Len(ctxs) = 1 /\ ctxs[1].closed
    /\ tasks["t1"] = [IdleTask EXCEPT !.h = 1]
    /\ lookups = {[cred |-> env, h |-> 1]}

\* C9: credential sets that differ in a component, a routing header unset
\* against one set to any string included, get distinct handle instances
\* and distinct pool keys.
C9_DistinctCredentialsDistinctHandles ==
    \A l1, l2 \in lookups :
        l1.cred # l2.cred =>
            l1.h # l2.h /\ PoolKey(l1.cred) # PoolKey(l2.cred)

\* What a step may change when it closes handle h.
C10_Frame(h) ==
    /\ pool' = pool
    /\ Len(handles') = Len(handles)
    /\ Len(ctxs') = Len(ctxs)
    /\ \A g \in 1..Len(handles) : g # h => handles'[g] = handles[g]
    /\ handles'[h] = [handles[h] EXCEPT !.client = handles'[h].client]
    /\ handles'[h].client \in {0, handles[h].client}
    /\ \A c \in 1..Len(ctxs) : c # handles[h].client => ctxs'[c] = ctxs[c]
    /\ \A c \in 1..Len(ctxs) : ctxs'[c] = [ctxs[c] EXCEPT !.closed = ctxs'[c].closed]

\* In SpecPool the steps that move neither t1 nor close_all nor the
\* environment are the steps of aclose, which t2 runs.
C10_AcloseStep ==
    /\ tasks'["t1"] = tasks["t1"]
    /\ closer' = closer
    /\ env' = env
    /\ lookups' = lookups

\* C10: a step of aclose on a handle h changes nothing but h's reference to
\* its context and that context: the pool mapping, every other handle and
\* every other context stay as they are.
C10_AcloseChangesOneHandle ==
    [][C10_AcloseStep =>
          \/ UNCHANGED <<handles, ctxs, pool>>
          \/ \E h \in 1..Len(handles) :
                 /\ tasks'["t2"].h = h
                 /\ C10_Frame(h)]_vars

\* aclose is closing handle 1's context while handle 2, also in the pool,
\* holds an open one.
C10_Witness ==
    /\ tasks["t2"].pc = "closing" /\ tasks["t2"].h = 1
    /\ Len(pool) = 2
    /\ handles[1].client = 1 /\ ctxs[1].closed
    /\ handles[2].client = 2 /\ ~ctxs[2].closed

----------------------------------------------------------------------------
(* Properties of teardown and of the lifespan *)

\* What a step of close_all may do once a close_all has returned and nothing
\* ran since: return again, with nothing changed.
C11_SecondCallStep ==
    closer.pc = "done" /\ closer' # closer =>
        /\ closer' = [closer EXCEPT !.calls = closer.calls + 1]
        /\ UNCHANGED <<env, handles, ctxs, pool, tasks>>

\* C11: with no other task running, close_all on a pool of zero, one or
\* more handles, some of which never built a context, raises nothing and,
\* when it has returned, every context built is closed, no handle refers to
\* one and the pool is empty; a close_all right after it changes nothing
\* and raises nothing.
C11_CloseAllReleasesAndEmpties ==
    /\ [](closer.pc # "failed" /\ closer.error = NoError)
    /\ [](closer.pc = "done" =>
             /\ pool = <<>>
             /\ \A h \in 1..Len(handles) : handles[h].client = 0
             /\ \A c \in 1..Len(ctxs) : ctxs[c].closed)
    /\ [][C11_SecondCallStep]_vars

\* Two close_all calls in a row have returned on a pool of two handles, the
\* first of which never built a context and the second of which held an open
\* one; no handle was closed on its own before.
C11_Witness ==
    /\ closer.pc = "done" /\ closer.calls = 2
    /\ pool = <<>>
    /\ Len(handles) = 2 /\ Len(ctxs) = 1
    /\ tasks["t1"].h = 2 /\ tasks["t1"].client = 1
    /\ tasks["t2"] = IdleTask

\* C12: the pool the lifespan hook constructs is the pool every tool call
\* gets its handle from, and the hook calls close_all on it exactly once, so
\* that after shutdown every handle a tool call obtained has no open context.
C12_OnePoolReleasedAtShutdown ==
    /\ \A l \in lookups :
           \E i \in 1..Len(life.clients) : life.clients[i].h = l.h
    /\ life.pc = "stopped" =>
           /\ life.closes = 1
           /\ \A l \in lookups :
                  \/ handles[l.h].client = 0
                  \/ ctxs[handles[l.h].client].closed

----------------------------------------------------------------------------
(* Properties of get_client and of the handle *)

\* A required value that is absent or empty.
C13_Missing(e) ==
    \/ ~e.base_url.set \/ e.base_url.val = <<>>
    \/ ~e.api_key.set \/ e.api_key.val = <<>>

\* In SpecEnv a step that takes t1 from rest to a record with no attempt
\* begun is a step of get_client.
C13_LookupStep ==
    /\ AtRest("t1")
    /\ tasks'["t1"] # tasks["t1"]
    /\ tasks'["t1"].pc # "attempting"
    /\ tasks'["t1"].outcomes = <<>>

\* C13: get_client raises the configuration error whenever base URL or
\* API token is absent or empty at the call, on every call, a populated
\* pool included, and only then; under such an environment no handle is
\* created, and pool and lookups stay as they are.
C13_ConfigurationErrorEveryCall ==
    [][/\ C13_LookupStep /\ C13_Missing(env) =>
              /\ tasks'["t1"].pc = "failed"
              /\ tasks'["t1"].error = Err("ValueError", 0)
              /\ UNCHANGED <<handles, ctxs, pool, lookups>>
       /\ C13_LookupStep /\ ~C13_Missing(env) =>
              /\ tasks'["t1"].pc = "idle"
              /\ tasks'["t1"].h # 0
       /\ C13_Missing(env) /\ env' = env =>
              /\ pool' = pool
              /\ Len(handles') = Len(handles)
              /\ lookups' = lookups]_vars

\* The lookup failed on an empty API token after earlier lookups had
\* populated the pool.
C13_Witness ==
    /\ tasks["t1"].pc = "failed"
    /\ tasks["t1"].error = Err("ValueError", 0)
    /\ tasks["t1"].h # 0
    /\ env.api_key = Some(<<>>)
    /\ Len(pool) = 2

\* C14: get_client builds no context and starts no attempt, and a handle
\* it creates has no context; a context is built only in the step in which
\* a request call on a handle without one begins (its first call, or the
\* first after a close), and that handle then refers to the new context.
C14_LazyTwoStageInit ==
    [][/\ Len(handles') # Len(handles) =>
              /\ Len(handles') = Len(handles) + 1
              /\ handles'[Len(handles')].client = 0
              /\ ctxs' = ctxs
              /\ tasks'["t1"].pc = "idle"
       /\ lookups' # lookups /\ lookups' # {} =>
              /\ ctxs' = ctxs
              /\ \A h \in 1..Len(handles) : handles'[h] = handles[h]
              /\ tasks'["t1"].pc = "idle"
       /\ Len(ctxs') # Len(ctxs) =>
              /\ Len(ctxs') = Len(ctxs) + 1
              /\ ~ctxs'[Len(ctxs')].closed
              /\ \E t \in Tasks :
                     /\ AtRest(t)
                     /\ tasks'[t].pc = "attempting"
                     /\ tasks'[t].outcomes = <<>>
                     /\ tasks'[t].h = tasks[t].h
                     /\ tasks'[t].client = Len(ctxs')
                     /\ handles[tasks[t].h].client = 0
                     /\ handles'[tasks[t].h].client = Len(ctxs')]_vars

\* The handle's first context was closed and the reference cleared; the next
\* request call on the handle has built a second one and awaits its attempt.
C14_Witness ==
    /\ Len(handles) = 1 /\ Len(ctxs) = 2
    /\ ctxs[1].closed /\ ~ctxs[2].closed
    /\ handles[1].client = 2
    /\ tasks["t1"].pc = "attempting" /\ tasks["t1"].client = 2

\* In SpecClose the steps of aclose, which t2 runs on the handle its record
\* names, are among those that move neither t1 nor close_all; no close_all
\* overlaps them there.
C15_AcloseStep ==
    /\ tasks'["t1"] = tasks["t1"]
    /\ closer' = closer
    /\ lookups' = lookups

\* C15: aclose on a handle with no context changes nothing, be it the first
\* close of a handle never used or a close right after a close; on a handle
\* with a context it closes that context and then clears the reference to
\* it, and the next request call on the handle builds a new, open context
\* (one close of the handle at a time).
C15_AcloseReleasesAndResets ==
    [][/\ C15_AcloseStep =>
              /\ Len(handles') = Len(handles) /\ Len(ctxs') = Len(ctxs)
              /\ \A h \in 1..Len(handles) :
                     handles'[h] # handles[h] =>
                         /\ handles[h].client # 0
                         /\ ctxs[handles[h].client].closed
                         /\ handles'[h].client = 0
              /\ \A c \in 1..Len(ctxs) :
                     ctxs'[c] # ctxs[c] =>
                         /\ ctxs'[c].closed
                         /\ tasks'["t2"].pc = "closing"
                         /\ handles[tasks'["t2"].h].client = c
              /\ AtRest("t2") /\ tasks'["t2"] # tasks["t2"]
                    /\ handles[tasks'["t2"].h].client = 0 =>
                         /\ UNCHANGED <<handles, ctxs>>
                         /\ tasks'["t2"].pc = "idle"
              /\ AtRest("t2") /\ tasks'["t2"] # tasks["t2"]
                    /\ handles[tasks'["t2"].h].client # 0 =>
                         /\ ctxs'[handles[tasks'["t2"].h].client].closed
                         /\ handles'[tasks'["t2"].h].client \in
                                {0, handles[tasks'["t2"].h].client}
              /\ tasks["t2"].pc = "closing" /\ tasks'["t2"] # tasks["t2"] =>
                         /\ handles'[tasks["t2"].h].client = 0
                         /\ ctxs' = ctxs
                         /\ tasks'["t2"].pc = "idle"
       /\ \A t \in Tasks :
              AtRest(t) /\ tasks'[t].pc = "attempting"
                    /\ handles[tasks'[t].h].client = 0 =>
                         /\ tasks'[t].client = Len(ctxs) + 1
                         /\ handles'[tasks'[t].h].client = Len(ctxs) + 1
                         /\ Len(ctxs') = Len(ctxs) + 1
                         /\ ~ctxs'[Len(ctxs')].closed]_vars

\* A request call built the handle's context and returned; aclose, not
\* close_all, has released the context and cleared the reference.
C15_Witness ==
    /\ closer.calls = 0
    /\ tasks["t2"] = [IdleTask EXCEPT !.h = 1]
    /\ tasks["t1"].pc = "done" /\ tasks["t1"].client = 1
    /\ handles[1].client = 0
    /\ Len(ctxs) = 1 /\ ctxs[1].closed

\* C16: the context a handle built carries a Core-Url header if and only if
\* the handle's routing value is not None, the empty string included, and
\* the header's value is that routing value.
C16_CoreUrlHeaderIffNonNull ==
    \A h \in 1..Len(handles) :
        handles[h].client # 0 =>
            LET c == ctxs[handles[h].client]
            IN  /\ c.core.set <=> handles[h].core_url.set
                /\ c.core.set => c.core.val = handles[h].core_url.val

\* Endpoints with no, one and two leading slashes.
C17_Endpoints == {<<"x">>, <<"/", "x">>, <<"/", "/", "x", "/", "y">>}

\* C17: the handle a lookup returned holds the credentials of the
\* environment it was looked up under: its context carries Authorization:
\* Bearer <that api_key>, and its requests target <that base_url without
\* trailing slashes>/<the path without leading slashes>.
C17_RequestsCarryLookupCredentials ==
    \A l \in lookups :
        LET hd == handles[l.h]
            base == RStripSlash(l.cred.base_url.val)
        IN  /\ hd.base_url = base
            /\ hd.api_key = l.cred.api_key.val
            /\ hd.core_url = l.cred.core_url
            /\ hd.client # 0 =>
                   ctxs[hd.client].auth = <<"Bearer", " ">> \o l.cred.api_key.val
            /\ \A p \in C17_Endpoints :
                   /\ Url(hd.base_url, p) = base \o <<"/">> \o LStripSlash(p)
                   /\ base = <<>> \/ base[Len(base)] # "/"
                   /\ LStripSlash(p)[1] # "/"

\* C18: tasks that call get_client under one environment, interleaved with
\* each other and with each other's suspended request calls, all hold the
\* same handle instance, and the pool has a single entry, the one for the
\* environment's key, with that handle.
C18_ConcurrentLookupsOneHandle ==
    /\ \A l1, l2 \in lookups : l1.h = l2.h
    /\ \A t \in Tasks :
           tasks[t].h # 0 =>
               /\ [cred |-> env, h |-> tasks[t].h] \in lookups
               /\ pool = <<[key |-> PoolKey(env), h |-> tasks[t].h]>>
    /\ Len(pool) <= 1
    /\ Len(handles) = Len(pool)

\* t2 looked the handle up while t1, holding the same one, sleeps between
\* two attempts of a request call.
C18_Witness ==
    /\ tasks["t1"].pc = "sleeping" /\ tasks["t1"].h = 1
    /\ tasks["t2"] = [IdleTask EXCEPT !.h = 1]
    /\ Len(pool) = 1 /\ Len(handles) = 1

----------------------------------------------------------------------------
(* Properties of the tools *)

\* C19 as stated: every tool call that passed its argument validation, and
\* every tool call that returned, resolved a handle once and invoked request
\* exactly once, with the tool's method and path.
C19_EveryToolOneRequest ==
    /\ Len(toolcall.reqs) <= 1
    /\ toolcall.pc \in {"awaiting", "done"} =>
           /\ toolcall.gets = 1
           /\ Len(toolcall.reqs) = 1
           /\ toolcall.reqs[1].method = ToolMethod(toolcall.tool)
           /\ toolcall.reqs[1].path = ToolPath(toolcall.tool, toolcall.args)

\* A call that got as far as invoking request, or returned.
C19_Requested == toolcall.pc = "awaiting" \/ Len(toolcall.reqs) > 0

\* C19, amended: every call of a tool of cutover_mcp.tools calls get_client
\* once; one that got its handle and passed its argument validation invokes
\* request exactly once, with the method and path fixed for the tool and
\* its identifiers, and none returns without that one request; a call that
\* failed validation invoked none.  ping resolves no handle and invokes no
\* request.
C19_ApiToolOneRequest ==
    /\ Len(toolcall.reqs) <= 1
    /\ toolcall.tool \in ApiTools /\ toolcall.pc # "idle" => toolcall.gets = 1
    /\ toolcall.tool \in ApiTools /\ toolcall.pc \in {"awaiting", "done"} =>
           /\ Len(toolcall.reqs) = 1
           /\ toolcall.reqs[1].method = ToolMethod(toolcall.tool)
           /\ toolcall.reqs[1].path = ToolPath(toolcall.tool, toolcall.args)
           /\ toolcall.reqs[1].url =
                  handles[tasks["t1"].h].base_url \o <<"/">> \o toolcall.reqs[1].path
    /\ toolcall.tool = "manage_runbook" /\ toolcall.args.action = "stop" =>
           /\ toolcall.reqs = <<>>
           /\ toolcall.pc \in {"resolved", "failed"}
    /\ toolcall.tool = "start_task" /\ toolcall.args = Args("a", "b", NoArg)
          /\ C19_Requested =>
           /\ toolcall.reqs[1].method = "PATCH"
           /\ toolcall.reqs[1].path =
                  <<"core", "/", "runbooks", "/", "a", "/", "tasks", "/", "b", "/", "start">>
    /\ toolcall.tool = "get_workspace_by_id" /\ toolcall.args = Args("a", NoArg, NoArg)
          /\ C19_Requested =>
           /\ toolcall.reqs[1].method = "GET"
           /\ toolcall.reqs[1].path = <<"core", "/", "workspaces", "/", "a">>
    /\ toolcall.tool = "ping" =>
           /\ toolcall.gets = 0 /\ toolcall.reqs = <<>>
           /\ toolcall.pc = "done" /\ toolcall.result = PingResult

\* start_task returned the document of its one request, which took three
\* attempts.
C19_Witness ==
    /\ toolcall.pc = "done" /\ toolcall.tool = "start_task"
    /\ toolcall.args = Args("a", "b", NoArg)
    /\ Len(toolcall.reqs) = 1 /\ toolcall.gets = 1
    /\ Len(tasks["t1"].outcomes) = 3
    /\ toolcall.result = {<<"data", "{resource}">>}

\* C20: when the request a tool issued raised an HTTP status error (401,
\* 403, 404 or 500), the tool call ends raising that error, status
\* included, with no result and no further request.
C20_StatusErrorPropagates ==
    \A st \in {401, 403, 404, 500} :
        (/\ toolcall.pc \in {"done", "failed"}
         /\ Len(toolcall.reqs) = 1
         /\ tasks["t1"].pc = "failed"
         /\ tasks["t1"].error = Err("HTTPStatusError", st)) =>
            /\ toolcall.pc = "failed"
            /\ toolcall.error = Err("HTTPStatusError", st)
            /\ toolcall.result = EmptyObject
            /\ toolcall.tool \in ApiTools

\* list_task_types raised the 500 its request raised after three attempts.
C20_Witness ==
    /\ toolcall.pc = "failed" /\ toolcall.tool = "list_task_types"
    /\ toolcall.error = Err("HTTPStatusError", 500)
    /\ Len(toolcall.reqs) = 1
    /\ Len(tasks["t1"].outcomes) = 3

----------------------------------------------------------------------------
(* C21 *)

----------------------------------------------------------------------------
(* C22 *)

\* Whether a JSON object has a member at the end of a path of names, and
\* the value there.
RECURSIVE HasPath(_, _)
HasPath(obj, path) ==
    \E m \in obj : m[1] = path[1] /\ (Len(path) = 1 \/ HasPath(m[2], Tail(path)))

RECURSIVE AtPath(_, _)
AtPath(obj, path) ==
    LET v == (CHOOSE m \in obj : m[1] = path[1])[2]
    IN  IF Len(path) = 1 THEN v ELSE AtPath(v, Tail(path))

\* The parameters that may be None, by tool; for manage_runbook those of
\* the action chosen.
C22_Optional(tool, a) ==
    CASE tool = "manage_runbook" -> IF a.action = "start" THEN StartKeys ELSE OtherKeys
      [] tool = "create_stream" -> {"color", "parent_stream_id"}
      [] tool = "list_streams" -> {}
      [] OTHER -> OptNames(tool)

C22_RelationshipIds == {"predecessors", "task_type_id", "stream_id"}

\* The place of a parameter in the request body or query.
C22_Place(tool, n) ==
    CASE tool = "manage_runbook" -> <<"meta", n>>
      [] tool = "get_action_logs" -> <<n>>
      [] n = "predecessors" -> <<"data", "relationships", "predecessors">>
      [] n = "task_type_id" -> <<"data", "relationships", "task_type">>
      [] n = "stream_id" -> <<"data", "relationships", "stream">>
      [] n = "parent_stream_id" -> <<"data", "relationships", "parent">>
      [] OTHER -> <<"data", "attributes", n>>

\* Whether the value there is the value passed.
C22_ValueAt(body, tool, n, v) ==
    IF n = "predecessors"
    THEN LET l == AtPath(body, C22_Place(tool, n) \o <<"data">>)
         IN  /\ Len(l) = Len(v)
             /\ \A i \in 1..Len(l) : AtPath(l[i], <<"id">>) = Text(v[i])
    ELSE IF n \in {"task_type_id", "stream_id", "parent_stream_id"}
    THEN AtPath(body, C22_Place(tool, n) \o <<"data", "id">>) = v
    ELSE AtPath(body, C22_Place(tool, n)) = v

\* Whether a parameter counts as supplied: not None; or, where empty texts
\* are set apart, for the filters of get_action_logs and the color of
\* create_stream, neither None nor empty.
C22_Supplied(emptyApart, tool, n, o) ==
    IF emptyApart /\ (tool = "get_action_logs" \/ (tool = "create_stream" /\ n = "color"))
    THEN Truthy(o[n])
    ELSE o[n].set

C22_Request == toolcall.reqs[1]
C22_Body ==
    IF toolcall.tool = "get_action_logs" THEN C22_Request.params.val
    ELSE C22_Request.json_data.val

C22_Payload(emptyApart) ==
    (Len(toolcall.reqs) = 1 /\ OptNames(toolcall.tool) # {}
       /\ toolcall.tool # "list_streams") =>
    LET tool == toolcall.tool
        a == toolcall.args
        o == toolcall.opts
    IN  /\ \A n \in C22_Optional(tool, a) :
              /\ HasPath(C22_Body, C22_Place(tool, n)) <=> C22_Supplied(emptyApart, tool, n, o)
              /\ C22_Supplied(emptyApart, tool, n, o) =>
                     C22_ValueAt(C22_Body, tool, n, o[n].val)
        /\ tool = "manage_runbook" =>
              \A m \in AtPath(C22_Body, <<"meta">>) : m[1] \in C22_Optional(tool, a)
        /\ tool \in {"add_task_to_runbook", "update_runbook_task"} =>
              (HasPath(C22_Body, <<"data", "relationships">>)
                 <=> \E n \in C22_RelationshipIds \cap OptNames(tool) : o[n].set)
        /\ tool = "get_action_logs" =>
              /\ HasPath(C22_Body, <<"page[number]">>)
              /\ HasPath(C22_Body, <<"page[size]">>)
              /\ \A m \in C22_Body :
                    m[1] \in {"page[number]", "page[size]"} \cup OptNames(tool)

----------------------------------------------------------------------------
(* C23 *)

\* C23: the runbooks tool module provides update_runbook, and a call of it
\* that has reached request has issued exactly one request, a PATCH to
\* core/runbooks/{runbook_id}, whose payload has type runbook and that id.
C23_UpdateRunbookProvided ==
    /\ "update_runbook" \in RunbookTools
    /\ RunbookTools \subseteq ApiTools
    /\ (toolcall.tool = "update_runbook" /\ toolcall.pc \in {"awaiting", "done"}) =>
           /\ Len(toolcall.reqs) = 1
           /\ toolcall.reqs[1].method = "PATCH"
           /\ toolcall.reqs[1].path = Runbook(toolcall.args.r)
           /\ AtPath(toolcall.reqs[1].json_data.val, <<"data", "type">>) = Text("runbook")
           /\ AtPath(toolcall.reqs[1].json_data.val, <<"data", "id">>) =
                  Text(toolcall.args.r)

----------------------------------------------------------------------------
(* C24 *)

\* C24: the raise ConnectionError after the loop of request is never
\* reached: no call ends with ConnectionError, no call sleeps after its last
\* attempt, and the loop never takes a turn beyond range(3); a call that has
\* used all its attempts has raised the error of the last one.
C24_FallthroughUnreachable ==
    \A t \in Tasks :
        /\ tasks[t].error.kind # "ConnectionError"
        /\ tasks[t].attempt < RangeStop
        /\ tasks[t].pc = "sleeping" => tasks[t].attempt < LastAttempt
        /\ (Terminal(tasks[t]) /\ Len(tasks[t].outcomes) = RangeStop
               /\ Last(tasks[t].outcomes).kind = "neterr")
           => tasks[t].error = Err("RequestError", 0)

C24_Witness ==
    /\ tasks["t1"].pc = "failed"
    /\ tasks["t1"].outcomes = <<NetErr, Resp(503, ""), NetErr>>
    /\ tasks["t1"].sleeps = <<1, 2>>
    /\ tasks["t1"].error = Err("RequestError", 0)

----------------------------------------------------------------------------
(* C25 *)

\* C25: with several tasks looking up the handle and issuing requests on it
\* concurrently, and no close, the handle builds one connection context at
\* most: every context built is the one its handle refers to, and every task
\* inside a request call uses that context.
C25_OneContextPerHandle ==
    /\ Len(ctxs) <= Len(handles)
    /\ \A c \in 1..Len(ctxs) :
           /\ ~ctxs[c].closed
           /\ \E h \in 1..Len(handles) : handles[h].client = c
    /\ \A h1, h2 \in 1..Len(handles) :
           (handles[h1].client # 0 /\ handles[h1].client = handles[h2].client) => h1 = h2
    /\ \A t \in Tasks :
           InCall(tasks[t]) => tasks[t].client = handles[tasks[t].h].client

\* Both tasks are inside their first request call on the new handle, each
\* suspended in a network attempt, on the one context.
C25_Witness ==
    /\ tasks["t1"].pc = "attempting" /\ tasks["t1"].outcomes = <<>>
    /\ tasks["t2"].pc = "attempting" /\ tasks["t2"].outcomes = <<>>
    /\ tasks["t1"].h = 1 /\ tasks["t2"].h = 1
    /\ tasks["t1"].client = 1 /\ tasks["t2"].client = 1
    /\ Len(ctxs) = 1

----------------------------------------------------------------------------
(* C26 *)

\* A handle holds a live connection context: it refers to one not closed.
Live(hs, cs, h) == hs[h].client # 0 /\ ~cs[hs[h].client].closed

\* close_all returns: the step that takes its coroutine to its end.
C26_Returns == closer' # closer /\ closer'.pc = "done"

C26_ReturnStep ==
    C26_Returns =>
        /\ pool' = <<>>
        /\ \A i \in 1..Len(pool) : ~Live(handles', ctxs', pool[i].h)

\* C26: whatever other tasks do while close_all is suspended awaiting a
\* handle's close (get_client with a new key or an existing one, a request
\* on a handle already closed in this pass), close_all never ends in an
\* error, and at the step it returns the pool is empty and no handle that was
\* in the pool holds a live connection context.
C26_CloseAllCorrectUnderConcurrency ==
    /\ [](closer.pc # "failed")
    /\ [][C26_ReturnStep]_vars

\* The same in two parts, each a counterexample of its own.
C26_NeverFails == closer.pc # "failed"
C26_ReturnsClean == [][C26_ReturnStep]_vars

----------------------------------------------------------------------------
(* C27 *)

\* A step of the request call task t1 is suspended in.
C27_CallStep == InCall(tasks["t1"]) /\ tasks'["t1"] # tasks["t1"]

\* C27: every step of a request call after its start keeps the connection
\* context the call obtained at its start, builds no context and leaves every
\* handle's context reference as it is; a further attempt is sent only on a
\* context still open, and on a context closed meanwhile the call ends with
\* the RuntimeError of the released context.
C27_CallKeepsItsContext ==
    [][C27_CallStep =>
         /\ tasks'["t1"].client = tasks["t1"].client
         /\ tasks'["t1"].h = tasks["t1"].h
         /\ ctxs' = ctxs
         /\ handles' = handles
         /\ tasks["t1"].pc = "sleeping" =>
               IF ctxs[tasks["t1"].client].closed
               THEN /\ tasks'["t1"].pc = "failed"
                    /\ tasks'["t1"].error = Err("RuntimeError", 0)
                    /\ tasks'["t1"].sleeps = tasks["t1"].sleeps
               ELSE tasks'["t1"].pc = "attempting"]_vars

\* The handle was closed while the call slept after a first attempt: the
\* second attempt met the released context, and the handle's reference is
\* still cleared.
C27_Witness ==
    /\ tasks["t1"].pc = "failed"
    /\ tasks["t1"].outcomes = <<Resp(503, ""), ClosedErr>>
    /\ tasks["t1"].error = Err("RuntimeError", 0)
    /\ tasks["t1"].client = 1
    /\ handles[tasks["t1"].h].client = 0
    /\ Len(ctxs) = 1

----------------------------------------------------------------------------
(* C28 *)

\* The attempt outcomes after which the policy sends again.
C28_Retried(o) == o.kind = "neterr" \/ (o.kind = "response" /\ o.status >= 500)

\* C28: for every tool call that has invoked request, whatever its method,
\* path, body and query, the position of the call, its number of attempts and
\* its delays are those the sequence of attempt outcomes alone determines:
\* the delays are 1, 2 in this order, one after each outcome but the last
\* seen, each of which was a network error or a status >= 500; the call
\* sleeps or sends again after such an outcome short of the third, and has
\* ended after any other outcome and after the third; and all its sends are
\* of the one request the tool issued.
C28_PolicyIgnoresRequest ==
    (toolcall.pc = "awaiting" /\ Len(toolcall.reqs) = 1) =>
    LET tk == tasks["t1"]
        n == Len(tk.outcomes)
    IN  /\ n <= RangeStop
        /\ tk.sleeps = SubSeq(<<1, 2>>, 1, Len(tk.sleeps))
        /\ \A i \in 1..(n - 1) : C28_Retried(tk.outcomes[i])
        /\ tk.pc = "attempting" => Len(tk.sleeps) = n /\ tk.attempt = n
        /\ tk.pc = "sleeping" =>
              n < RangeStop /\ Len(tk.sleeps) = n /\ C28_Retried(Last(tk.outcomes))
        /\ Terminal(tk) =>
              /\ Len(tk.sleeps) = n - 1
              /\ n = RangeStop \/ ~C28_Retried(Last(tk.outcomes))
        /\ (n > 0 /\ n < RangeStop /\ C28_Retried(Last(tk.outcomes))) => ~Terminal(tk)

\* A POST was sent three times: after a status 500 and after a network
\* error it was sent again, and the third failure ended the call.
C28_Witness ==
    /\ toolcall.tool = "create_runbook"
    /\ toolcall.pc = "awaiting"
    /\ Len(toolcall.reqs) = 1 /\ toolcall.reqs[1].method = "POST"
    /\ toolcall.reqs[1].json_data.set
    /\ tasks["t1"].outcomes = <<Resp(500, ""), NetErr, Resp(500, "")>>
    /\ tasks["t1"].sleeps = <<1, 2>>
    /\ tasks["t1"].pc = "failed"

----------------------------------------------------------------------------
(* C29 *)

\* C29: under lookups and requests with the environment changing between
\* them, every step keeps every pool entry, key and handle, in its place, new
\* entries coming after them; keeps every connection context built as it is,
\* open; and leaves every credential set ever looked up with its key in the
\* pool, mapped to the handle the lookup returned.
C29_PoolOnlyGrows ==
    [][/\ Len(pool') >= Len(pool)
       /\ \A i \in 1..Len(pool) : pool'[i] = pool[i]
       /\ \A c \in 1..Len(ctxs) : ctxs'[c] = ctxs[c] /\ ~ctxs'[c].closed
       /\ \A i \in 1..Len(pool) : handles'[pool[i].h].client # 0 =>
              handles'[pool[i].h].client \in 1..Len(ctxs')
       /\ \A l \in lookups' :
              /\ DictHas(pool', PoolKey(l.cred))
              /\ DictValue(pool', PoolKey(l.cred)) = l.h]_vars

\* The pool holds two entries; the first is for credentials no longer in
\* the environment and its handle still holds its open context, while t1
\* holds the handle of the second, looked up under the present environment.
C29_Witness ==
    /\ Len(pool) = 2
    /\ Valid(env)
    /\ pool[1].key # PoolKey(env)
    /\ pool[2].key = PoolKey(env)
    /\ handles[pool[1].h].client # 0
    /\ ~ctxs[handles[pool[1].h].client].closed
    /\ tasks["t1"].h = pool[2].h
    /\ pool[1].h # pool[2].h

----------------------------------------------------------------------------
(* C30 *)

\* An attempt whose failure is neither a network error nor a status error:
\* an accepted response other than 204 whose body json.loads rejects, or the
\* RuntimeError of a released context.
C30_Undecodable(o) ==
    o.kind = "response" /\ IsSuccess(o.status) /\ o.status # 204 /\ ~JsonLoads(o.body).ok
C30_OtherFailure(o) == C30_Undecodable(o) \/ o.kind = "closed"

\* C30: an attempt that failed with anything but a network error or a
\* status error is the last of its call, on whichever attempt it occurs: the
\* call has failed with that failure, and no sleep follows it.
C30_OtherFailureTerminal ==
    \A t \in Tasks : \A i \in 1..Len(tasks[t].outcomes) :
        C30_OtherFailure(tasks[t].outcomes[i]) =>
            /\ i = Len(tasks[t].outcomes)
            /\ tasks[t].pc = "failed"
            /\ tasks[t].attempt = i - 1
            /\ Len(tasks[t].sleeps) = i - 1
            /\ tasks[t].error.kind =
                  (IF C30_Undecodable(tasks[t].outcomes[i])
                   THEN "JSONDecodeError" ELSE "RuntimeError")

\* The first attempt answered 201 with a body that is not JSON: the call
\* failed there, having slept not once.
C30_Witness ==
    /\ tasks["t1"].outcomes = <<Resp(201, "<html>")>>
    /\ tasks["t1"].pc = "failed"
    /\ tasks["t1"].error = Err("JSONDecodeError", 0)
    /\ tasks["t1"].sleeps = <<>>

\* The same on the second attempt, after one retried failure.
C30_WitnessSecond ==
    /\ tasks["t1"].outcomes = <<NetErr, Resp(201, "<html>")>>
    /\ tasks["t1"].pc = "failed"
    /\ tasks["t1"].sleeps = <<1>>

====
